---- MODULE Spec2Model ----
(***************************************************************************)
(* ETF holdings tracker: the ingest-and-store pipeline of tracker.py       *)
(* (fetch_etf_data, save_to_database, check_data_exists, run_tracker) and  *)
(* the queries of query_helper.py (get_holdings_by_date,                   *)
(* get_latest_holdings, compare_dates) over one SQLite table "holdings".   *)
(***************************************************************************)
EXTENDS Integers, Sequences, FiniteSets, TLC

VARIABLES
    initialized,  \* data/ and the holdings table exist (init_database has run)
    holdings,     \* the rows of the holdings table, in id order
    today,        \* the calendar day datetime.now() falls in
    pc,           \* "idle", or "loop" inside run_tracker's for loop
    etf_codes,    \* run_tracker: the list being processed
    idx,          \* run_tracker: 1-based position of the loop in etf_codes
    results,      \* run_tracker: the dict of the three result lists
    runStart,     \* the day and the row count at which the current run began
    runs,         \* number of run_tracker calls made
    out,          \* the status line the last loop iteration printed
    unclosed,     \* connections opened by an operation and not closed by it
    lastBatch,    \* the last dataframe save_to_database stored
    saveRet,      \* return value of the last direct save_to_database call
    resaves,      \* number of direct save_to_database calls made
    query,        \* the last query call and what it returned
    feed,         \* SpecFetch: the feed served to fetch_etf_data
    df            \* SpecFetch: what fetch_etf_data returned for it

vars == <<initialized, holdings, today, pc, etf_codes, idx, results, runStart,
          runs, out, unclosed, lastBatch, saveRet, resaves, query, feed, df>>

(***************************************************************************)
(* Bounds of the model.                                                    *)
(***************************************************************************)
MaxDay == 2
MaxRuns == 2
MaxCodes == 2
MaxUnclosed == 1
MaxResaves == 1
MaxFeedRows == 2

(***************************************************************************)
(* Cells.  A CSV cell read by pandas, a dataframe value and a SQLite value *)
(* are a number, a text or a null (NaN / None / NULL).                     *)
(***************************************************************************)
Num(n) == [kind |-> "num", num |-> n, str |-> ""]
Str(s) == [kind |-> "str", num |-> 0, str |-> s]
NaN == [kind |-> "nan", num |-> 0, str |-> ""]
isna(c) == c.kind = "nan"

\* The texts of the model that Python's float() parses, and their values.
NumericText == ("0" :> 0) @@ ("0.0" :> 0) @@ ("2" :> 2)

\* pd.to_numeric(x, errors="coerce"): a number stays, a text that parses
\* becomes its number, everything else becomes NaN.
to_numeric(c) ==
    IF c.kind = "num" THEN c
    ELSE IF c.kind = "str" /\ c.str \in DOMAIN NumericText
         THEN Num(NumericText[c.str])
         ELSE NaN

Min(a, b) == IF a <= b THEN a ELSE b

(***************************************************************************)
(* Configuration.                                                          *)
(***************************************************************************)
ETF_CONFIG == {"CEMBI", "EMBI", "GBI", "EMHY"}

\* datetime.now().strftime('%Y-%m-%d') for the days of the model.
strftime(day) == CASE day = 1 -> "2025-01-01"
                   [] day = 2 -> "2025-01-02"
                   [] day = 3 -> "2025-01-03"
                   [] OTHER -> "2025-01-04"

numeric_columns ==
    ("Weight (%)" :> "weight_pct") @@ ("YTM (%)" :> "ytm_pct") @@
    ("Market Value" :> "market_value") @@ ("Notional Value" :> "notional_value") @@
    ("Shares" :> "shares") @@ ("Price" :> "price")

column_mapping ==
    ("Ticker" :> "ticker") @@ ("Name" :> "name") @@ ("Location" :> "location") @@
    ("Sector" :> "sector") @@ ("Maturity" :> "maturity")

columns_to_keep ==
    {"etf_code", "date_of_pull", "ticker", "name", "location", "sector",
     "maturity", "weight_pct", "ytm_pct", "market_value", "notional_value",
     "shares", "price"}

HeadLimit == 1000

(***************************************************************************)
(* fetch_etf_data.  A feed is what pd.read_csv finds at the URL: either a  *)
(* failure (ok = FALSE) or a set of columns and rows of cells.  Dataframe  *)
(* rows keep their pandas index (the position in the feed, from 0).        *)
(***************************************************************************)
read_csv(f) == [i \in 1..Len(f.rows) |-> [index |-> i - 1, cells |-> f.rows[i]]]

\* df.get("Weight (%)", 0): the column, or the scalar 0 when it is absent.
HasWeight(f) == "Weight (%)" \in f.cols

\* The filter without the conversion: df[df["Weight (%)"] != 0].
WeightMaskRaw(r) == r.cells["Weight (%)"] # Num(0)

\* df[pd.to_numeric(weight, errors="coerce") != 0]: NaN != 0 is True.
WeightMask(r) == to_numeric(r.cells["Weight (%)"]) # Num(0)

head(s, n) == SubSeq(s, 1, Min(n, Len(s)))

\* for orig_col, new_col in numeric_columns.items(): df[new_col] = to_numeric(df[orig_col])
ConvertNumeric(cells) ==
    LET present == {o \in DOMAIN numeric_columns : o \in DOMAIN cells}
        added == {numeric_columns[o] : o \in present}
    IN  [c \in DOMAIN cells \cup added |->
            IF c \in added
            THEN to_numeric(cells[CHOOSE o \in present : numeric_columns[o] = c])
            ELSE cells[c]]

\* df.rename(columns=column_mapping)
RenamedCol(c) == IF c \in DOMAIN column_mapping THEN column_mapping[c] ELSE c
Rename(cells) ==
    [c \in {RenamedCol(x) : x \in DOMAIN cells} |->
        cells[CHOOSE x \in DOMAIN cells : RenamedCol(x) = c]]

\* df['etf_code'] = etf_code; df['date_of_pull'] = today's date
AddMetadata(cells, etf_code, date) ==
    [c \in DOMAIN cells \cup {"etf_code", "date_of_pull"} |->
        IF c = "etf_code" THEN Str(etf_code)
        ELSE IF c = "date_of_pull" THEN Str(date)
        ELSE cells[c]]

\* df[[col for col in columns_to_keep if col in df.columns]]
Project(cells) == [c \in DOMAIN cells \cap columns_to_keep |-> cells[c]]

NonNullCount(cells) == Cardinality({c \in DOMAIN cells : ~isna(cells[c])})

\* The threshold as a strict bound: more than half of the values non-null.
DropnaKeepsStrict(cells) == 2 * NonNullCount(cells) > Cardinality(DOMAIN cells)

\* df.dropna(thresh=len(df.columns) * 0.5): a row stays when its count of
\* non-null values is at least the threshold.
DropnaKeeps(cells) == 2 * NonNullCount(cells) >= Cardinality(DOMAIN cells)

Normalize(r, etf_code, date) ==
    [index |-> r.index,
     cells |-> Project(AddMetadata(Rename(ConvertNumeric(r.cells)), etf_code, date))]

None == [ok |-> FALSE, rows |-> <<>>]

fetch_etf_data(etf_code, f, date) ==
    IF ~f.ok THEN None                 \* read_csv raised
    ELSE IF ~HasWeight(f) THEN None    \* df[False] raises KeyError
    ELSE LET kept == head(SelectSeq(read_csv(f), WeightMask), HeadLimit)
             norm == [i \in 1..Len(kept) |-> Normalize(kept[i], etf_code, date)]
         IN  [ok |-> TRUE, rows |-> SelectSeq(norm, LAMBDA r : DropnaKeeps(r.cells))]

(***************************************************************************)
(* The holdings table (init_database) and the store operations.            *)
(***************************************************************************)
TableColumns ==
    {"id", "etf_code", "date_of_pull", "ticker", "name", "location", "sector",
     "maturity", "weight_pct", "ytm_pct", "market_value", "notional_value",
     "shares", "price", "created_at"}

NotNullColumns == {"etf_code", "date_of_pull"}

\* UNIQUE(etf_code, date_of_pull, ticker, name)
UniqueColumns == {"etf_code", "date_of_pull", "ticker", "name"}

\* SQLite's UNIQUE: two rows collide when they agree on every column of the
\* constraint and none of these values is NULL (NULLs are distinct).
Collide(a, b) ==
    \A k \in UniqueColumns : ~isna(a[k]) /\ ~isna(b[k]) /\ a[k] = b[k]

\* One inserted row: columns the dataframe lacks are NULL, id is the next
\* AUTOINCREMENT value, created_at defaults to the current timestamp.
ToRow(cells, id, now) ==
    [c \in TableColumns |->
        IF c = "id" THEN Num(id)
        ELSE IF c = "created_at" THEN Str(now)
        ELSE IF c \in DOMAIN cells THEN cells[c]
        ELSE NaN]

Inserted(table, rows, now) ==
    [i \in 1..Len(rows) |-> ToRow(rows[i].cells, Len(table) + i, now)]

\* The single multi-row INSERT of to_sql(method='multi') fails as a whole
\* when one of its rows breaks NOT NULL or UNIQUE, against the table or
\* against an earlier row of the same statement.
IntegrityError(table, rows, now) ==
    LET new == Inserted(table, rows, now)
    IN  \/ \E i \in 1..Len(new) : \E k \in NotNullColumns : isna(new[i][k])
        \/ \E i \in 1..Len(new) : \E j \in 1..Len(table) : Collide(new[i], table[j])
        \/ \E i \in 1..Len(new) : \E j \in 1..(i - 1) : Collide(new[i], new[j])

\* The existence check with its two arguments bound in the wrong order.
check_data_exists_swapped(table, etf_code, date_str) ==
    Cardinality({i \in 1..Len(table) :
        table[i]["etf_code"] = Str(date_str) /\ table[i]["date_of_pull"] = Str(etf_code)}) > 0

\* check_data_exists: COUNT(*) of the rows of the pair, > 0.
check_data_exists(table, etf_code, date_str) ==
    Cardinality({i \in 1..Len(table) :
        table[i]["etf_code"] = Str(etf_code) /\ table[i]["date_of_pull"] = Str(date_str)}) > 0

\* save_to_database(df, etf_code).  `ready` tells whether data/ and the table
\* exist, `fault` whether the store fails for another reason than a
\* constraint (sqlite3.OperationalError: locked, disk, too many variables).
\* Returns the value returned (ret), the table afterwards, the message
\* printed and whether the connection was left open: conn.close() is only
\* reached when nothing raised.
save_to_database(table, rows, ready, fault, now) ==
    IF ~ready
    THEN [ret |-> FALSE, table |-> table, msg |-> "save_error", leak |-> 0]
    ELSE IF fault
    THEN [ret |-> FALSE, table |-> table, msg |-> "save_error", leak |-> 1]
    ELSE IF IntegrityError(table, rows, now)
    THEN [ret |-> FALSE, table |-> table, msg |-> "exists", leak |-> 1]
    ELSE [ret |-> TRUE, table |-> table \o Inserted(table, rows, now),
          msg |-> "saved", leak |-> 0]

(***************************************************************************)
(* run_tracker.                                                            *)
(***************************************************************************)
EmptyResults == [success |-> <<>>, failed |-> <<>>, skipped |-> <<>>]

\* The append with the final else missing: 'failed' gets every code that
\* was not put there already.
RecordAlsoFailed(res, list, etf_code) ==
    IF list = "failed" THEN [res EXCEPT !.failed = Append(@, etf_code)]
    ELSE [res EXCEPT ![list] = Append(@, etf_code), !.failed = Append(@, etf_code)]

\* The append that forgets a failure.
RecordDropFailed(res, list, etf_code) ==
    IF list = "failed" THEN res ELSE [res EXCEPT ![list] = Append(@, etf_code)]

\* results[list].append(etf_code)
Record(res, list, etf_code) == [res EXCEPT ![list] = Append(@, etf_code)]

\* Which list one iteration of the loop appends to.
Outcome(known, exists, fetched, success) ==
    IF ~known THEN "failed"
    ELSE IF exists THEN "skipped"
    ELSE IF fetched THEN (IF success THEN "success" ELSE "skipped")
    ELSE "failed"

\* One iteration of the for loop for etf_code: `checkDate` is the date of
\* line 224, `stampDate` the date fetch_etf_data stamps (line 142).
Iteration(table, etf_code, f, checkDate, stampDate, fault) ==
    LET known == etf_code \in ETF_CONFIG
        exists == known /\ check_data_exists(table, etf_code, checkDate)
        d == IF known /\ ~exists THEN fetch_etf_data(etf_code, f, stampDate) ELSE None
        fetched == d.ok /\ Len(d.rows) > 0
        s == IF fetched
             THEN save_to_database(table, d.rows, TRUE, fault, stampDate)
             ELSE [ret |-> FALSE, table |-> table, msg |-> "none", leak |-> 0]
    IN  [list |-> Outcome(known, exists, fetched, s.ret),
         table |-> s.table,
         leak |-> s.leak,
         saved |-> s.ret,
         rows |-> d.rows,
         msg |-> IF ~known THEN "not_found"
                 ELSE IF exists THEN "already_fetched"
                 ELSE IF ~d.ok THEN "fetch_error"
                 ELSE IF ~fetched THEN "no_rows"
                 ELSE s.msg]

(***************************************************************************)
(* The feeds served to the tracker.                                        *)
(***************************************************************************)
SourceColumns == DOMAIN numeric_columns \cup DOMAIN column_mapping
FeedColumns == SourceColumns \cup {"Asset Class"}

\* A feed row over `cols`: ticker, name, weight and ytm as given, every
\* other text column `text`, every other numeric column `number`.
FeedRow(cols, ticker, name, weight, ytm, text, number) ==
    [c \in cols |->
        CASE c = "Ticker" -> ticker
          [] c = "Name" -> name
          [] c = "Weight (%)" -> weight
          [] c = "YTM (%)" -> ytm
          [] c \in DOMAIN numeric_columns -> number
          [] OTHER -> text]

FeedError == [ok |-> FALSE, cols |-> {}, rows |-> <<>>]
\* Three holdings: a plain one, one whose weight is no number and whose
\* yield is missing, and one of weight zero.
FeedGood ==
    [ok |-> TRUE, cols |-> FeedColumns, rows |->
        <<FeedRow(FeedColumns, Str("T1"), Str("N1"), Num(2), Num(3), Str("x"), Num(5)),
          FeedRow(FeedColumns, Str("T2"), Str("N2"), Str("abc"), NaN, Str("x"), Num(5)),
          FeedRow(FeedColumns, Str("T3"), Str("N3"), Num(0), Num(3), Str("x"), Num(5))>>]
\* Two cash positions without ticker.
FeedCash ==
    [ok |-> TRUE, cols |-> FeedColumns, rows |->
        <<FeedRow(FeedColumns, NaN, Str("CASH"), Num(1), Num(3), Str("x"), Num(5)),
          FeedRow(FeedColumns, NaN, Str("CASH"), Str("2"), Num(3), Str("x"), Num(5))>>]
\* Only holdings of weight zero: nothing is left after the filter.
FeedZero ==
    [ok |-> TRUE, cols |-> FeedColumns, rows |->
        <<FeedRow(FeedColumns, Str("T1"), Str("N1"), Str("0.0"), Num(3), Str("x"), Num(5))>>]
\* No weight column.
FeedNoWeight ==
    [ok |-> TRUE, cols |-> FeedColumns \ {"Weight (%)"}, rows |->
        <<FeedRow(FeedColumns \ {"Weight (%)"}, Str("T1"), Str("N1"), NaN, Num(3), Str("x"), Num(5))>>]

\* The same holding twice.
FeedDup ==
    [ok |-> TRUE, cols |-> FeedColumns, rows |->
        <<FeedRow(FeedColumns, Str("T1"), Str("N1"), Num(2), Num(3), Str("x"), Num(5)),
          FeedRow(FeedColumns, Str("T1"), Str("N1"), Num(2), Num(3), Str("x"), Num(5))>>]

Feeds == {FeedError, FeedGood, FeedCash, FeedZero, FeedNoWeight, FeedDup}
NoFeed == FeedError

\* The lists of codes run_tracker is called with.
RunCodes == {"EMBI", "CEMBI", "XXXX"}
CodeLists == UNION {[1..n -> RunCodes] : n \in 1..MaxCodes}

(***************************************************************************)
(* query_helper.py.                                                        *)
(***************************************************************************)
\* The position of a date text of the model in text order (SQLite compares
\* TEXT bytewise; for '%Y-%m-%d' texts that is the order of the days).
TextRank(s) == CHOOSE k \in 1..4 : strftime(k) = s

\* An argument interpolated into the f-string query between single quotes
\* breaks the statement when it holds a quote itself.
HasQuote(s) == s \in {"EM'BI"}

\* Stable descending sort of a sequence by the keys key[i] (a cell each): a
\* larger number first, nulls last, equal keys in their order in s.
SortDesc(s, key) ==
    LET before(i, j) == /\ ~isna(key[i])
                        /\ isna(key[j]) \/ key[i].num > key[j].num
        pos(i) == 1 + Cardinality({j \in 1..Len(s) :
                        \/ before(j, i)
                        \/ ~before(i, j) /\ j < i})
    IN  [p \in 1..Len(s) |-> s[CHOOSE i \in 1..Len(s) : pos(i) = p]]

\* ORDER BY weight_pct DESC (SQLite orders NULL as the smallest value).
OrderByWeightDesc(s) == SortDesc(s, [i \in 1..Len(s) |-> s[i]["weight_pct"]])

\* SELECT * FROM holdings WHERE etf_code = '..' AND date_of_pull = '..'
\* ORDER BY weight_pct DESC
SelectByDate(table, etf_code, date_str) ==
    OrderByWeightDesc(SelectSeq(table, LAMBDA r : r["etf_code"] = Str(etf_code)
                                                  /\ r["date_of_pull"] = Str(date_str)))

\* get_holdings_by_date: raised tells that the call ended in an exception;
\* leak that a connection was open then (conn.close() follows the query).
get_holdings_by_date(table, ready, etf_code, date_str) ==
    IF ~ready THEN [raised |-> TRUE, leak |-> 0, rows |-> <<>>]
    ELSE IF HasQuote(etf_code) \/ HasQuote(date_str)
    THEN [raised |-> TRUE, leak |-> 1, rows |-> <<>>]
    ELSE [raised |-> FALSE, leak |-> 0, rows |-> SelectByDate(table, etf_code, date_str)]

\* SELECT MAX(date_of_pull) FROM holdings WHERE etf_code = '..'
MaxDate(table, etf_code) ==
    LET ds == {table[i]["date_of_pull"].str : i \in {j \in 1..Len(table) :
                    table[j]["etf_code"] = Str(etf_code)}}
    IN  IF ds = {} THEN NaN
        ELSE Str(CHOOSE d \in ds : \A e \in ds : TextRank(e) <= TextRank(d))

get_latest_holdings(table, ready, etf_code) ==
    IF ~ready THEN [raised |-> TRUE, leak |-> 0, rows |-> <<>>]
    ELSE IF HasQuote(etf_code) THEN [raised |-> TRUE, leak |-> 1, rows |-> <<>>]
    ELSE [raised |-> FALSE, leak |-> 0,
          rows |-> OrderByWeightDesc(SelectSeq(table, LAMBDA r :
                                        /\ r["etf_code"] = Str(etf_code)
                                        /\ r["date_of_pull"] = MaxDate(table, etf_code)))]

\* df1.merge(df2, on=['ticker', 'name'], suffixes=('_old', '_new'), how='outer'):
\* one row per pair of rows with equal keys (null keys match each other),
\* and one row for each row without a partner, its other side null.
KeyMatch(a, b) == a["ticker"] = b["ticker"] /\ a["name"] = b["name"]

NullRow == [c \in TableColumns |-> NaN]

MergedRow(old, new, key) ==
    [name |-> key["name"], ticker |-> key["ticker"],
     id_old |-> old["id"], id_new |-> new["id"],
     location_new |-> new["location"],
     weight_pct_old |-> old["weight_pct"], weight_pct_new |-> new["weight_pct"],
     ytm_pct_old |-> old["ytm_pct"], ytm_pct_new |-> new["ytm_pct"]]

RECURSIVE Flatten(_)
Flatten(ss) == IF ss = <<>> THEN <<>> ELSE ss[1] \o Flatten(Tail(ss))

Merge(df1, df2) ==
    LET partners(l) == SelectSeq(df2, LAMBDA r : KeyMatch(l, r))
        left == [i \in 1..Len(df1) |->
                    IF partners(df1[i]) = <<>>
                    THEN <<MergedRow(df1[i], NullRow, df1[i])>>
                    ELSE [j \in 1..Len(partners(df1[i])) |->
                              MergedRow(df1[i], partners(df1[i])[j], df1[i])]]
        alone == SelectSeq(df2, LAMBDA r : \A i \in 1..Len(df1) : ~KeyMatch(df1[i], r))
    IN  Flatten(left) \o [j \in 1..Len(alone) |-> MergedRow(NullRow, alone[j], alone[j])]

\* The subtraction without fillna(0).
fillna_missing(c, v) == c

fillna(c, v) == IF isna(c) THEN Num(v) ELSE c

\* A difference of two float columns: NaN when either side is NaN.
Minus(a, b) == IF isna(a) \/ isna(b) THEN NaN ELSE Num(a.num - b.num)

Abs(n) == IF n < 0 THEN 0 - n ELSE n

WithChanges(m) ==
    [name |-> m.name, ticker |-> m.ticker, id_old |-> m.id_old, id_new |-> m.id_new,
     location_new |-> m.location_new,
     weight_pct_old |-> m.weight_pct_old, weight_pct_new |-> m.weight_pct_new,
     weight_change |-> Minus(fillna(m.weight_pct_new, 0), fillna(m.weight_pct_old, 0)),
     ytm_pct_old |-> m.ytm_pct_old, ytm_pct_new |-> m.ytm_pct_new,
     ytm_change |-> Minus(m.ytm_pct_new, m.ytm_pct_old)]

\* merged['abs_weight_change'] = merged['weight_change'].abs();
\* sort_values('abs_weight_change', ascending=False)
SortByAbsChange(s) ==
    SortDesc(s, [i \in 1..Len(s) |->
                    IF isna(s[i].weight_change) THEN NaN ELSE Num(Abs(s[i].weight_change.num))])

\* compare_dates: the rows of the merged frame in their final order (id_old
\* and id_new are columns of the merged frame the returned projection drops),
\* and the two counts printed.
compare_dates(table, ready, etf_code, date1, date2) ==
    LET q1 == get_holdings_by_date(table, ready, etf_code, date1)
        q2 == get_holdings_by_date(table, ready, etf_code, date2)
        m == Merge(q1.rows, q2.rows)
        merged == SortByAbsChange([i \in 1..Len(m) |-> WithChanges(m[i])])
    IN  IF q1.raised THEN [raised |-> TRUE, leak |-> q1.leak, rows |-> <<>>,
                           new |-> 0, removed |-> 0]
        ELSE [raised |-> FALSE, leak |-> 0, rows |-> merged,
              new |-> Cardinality({i \in 1..Len(merged) : isna(merged[i].weight_pct_old)}),
              removed |-> Cardinality({i \in 1..Len(merged) : isna(merged[i].weight_pct_new)})]

QueryCodes == {"EMBI", "EM'BI"}

(***************************************************************************)
(* State machine.                                                          *)
(***************************************************************************)
NoQuery == [op |-> "none", raised |-> FALSE, rows |-> <<>>, new |-> 0, removed |-> 0,
            same |-> FALSE]

Init ==
    /\ initialized = FALSE
    /\ holdings = <<>>
    /\ today = 1
    /\ pc = "idle"
    /\ etf_codes = <<>>
    /\ idx = 1
    /\ results = EmptyResults
    /\ runStart = [day |-> 1, rows |-> 0]
    /\ runs = 0
    /\ out = "none"
    /\ unclosed = 0
    /\ lastBatch = <<>>
    /\ saveRet = FALSE
    /\ resaves = 0
    /\ query = NoQuery
    /\ feed = NoFeed
    /\ df = None

\* The calendar day changes.
Tick ==
    /\ pc \in {"idle", "loop"}
    /\ today < MaxDay
    /\ today' = today + 1
    /\ UNCHANGED <<initialized, holdings, pc, etf_codes, idx, results, runStart,
                   runs, out, unclosed, lastBatch, saveRet, resaves, query, feed, df>>

\* init_database(): makedirs, CREATE TABLE IF NOT EXISTS, CREATE INDEX IF NOT EXISTS.
InitDatabase ==
    /\ pc = "idle"
    /\ ~initialized
    /\ initialized' = TRUE
    /\ UNCHANGED <<holdings, today, pc, etf_codes, idx, results, runStart,
                   runs, out, unclosed, lastBatch, saveRet, resaves, query, feed, df>>

\* run_tracker(etf_codes), called with a list, up to the loop: init_database,
\* the results.
StartRun(codes) ==
    /\ pc = "idle"
    /\ runs < MaxRuns
    /\ runs' = runs + 1
    /\ initialized' = TRUE
    /\ etf_codes' = codes
    /\ idx' = 1
    /\ results' = EmptyResults
    /\ runStart' = [day |-> today, rows |-> Len(holdings)]
    /\ pc' = "loop"
    /\ UNCHANGED <<holdings, today, out, unclosed, lastBatch, saveRet, resaves,
                   query, feed, df>>

\* One iteration of the loop, served feed f; fault: the store fails in
\* save_to_database.  An iteration that does not reach the fetch reads no
\* feed, one that does not reach the save meets no fault.  The date of the
\* check and the date stamped are taken on the same day; the day changes
\* between iterations.
Iterate(f, fault) ==
    /\ pc = "loop"
    /\ idx <= Len(etf_codes)
    /\ LET it == Iteration(holdings, etf_codes[idx], f, strftime(today), strftime(today), fault)
       IN  /\ unclosed + it.leak <= MaxUnclosed
           /\ fault => it.msg = "save_error"
           /\ f # NoFeed => it.msg \notin {"not_found", "already_fetched"}
           /\ holdings' = it.table
           /\ results' = Record(results, it.list, etf_codes[idx])
           /\ out' = it.msg
           /\ unclosed' = unclosed + it.leak
           /\ lastBatch' = IF it.saved THEN it.rows ELSE lastBatch
    /\ idx' = idx + 1
    /\ UNCHANGED <<initialized, today, pc, etf_codes, runStart, runs, saveRet,
                   resaves, query, feed, df>>

\* The loop is over and the summary printed: run_tracker returns, and its
\* locals are gone.
Finish ==
    /\ pc = "loop"
    /\ idx > Len(etf_codes)
    /\ pc' = "idle"
    /\ etf_codes' = <<>>
    /\ idx' = 1
    /\ results' = EmptyResults
    /\ runStart' = [day |-> 1, rows |-> 0]
    /\ out' = "none"
    /\ UNCHANGED <<initialized, holdings, today, runs, unclosed, lastBatch, saveRet,
                   resaves, query, feed, df>>

\* A direct call of save_to_database with the batch it stored last.
SaveAgain(fault) ==
    /\ pc = "idle"
    /\ lastBatch # <<>>
    /\ resaves < MaxResaves
    /\ LET s == save_to_database(holdings, lastBatch, initialized, fault, strftime(today))
       IN  /\ unclosed + s.leak <= MaxUnclosed
           /\ holdings' = s.table
           /\ saveRet' = s.ret
           /\ unclosed' = unclosed + s.leak
    /\ resaves' = resaves + 1
    /\ UNCHANGED <<initialized, today, pc, etf_codes, idx, results, runStart, runs,
                   out, lastBatch, query, feed, df>>

\* The query calls: the caller holds the result ...
GetHoldingsByDate(etf_code, d) ==
    /\ pc = "idle"
    /\ LET q == get_holdings_by_date(holdings, initialized, etf_code, strftime(d))
       IN  /\ unclosed + q.leak <= MaxUnclosed
           /\ unclosed' = unclosed + q.leak
           /\ query' = [op |-> "get_holdings_by_date", raised |-> q.raised,
                        rows |-> q.rows, new |-> 0, removed |-> 0,
                        same |-> FALSE]
    /\ pc' = "query"
    /\ UNCHANGED <<initialized, holdings, today, etf_codes, idx, results, runStart,
                   runs, out, lastBatch, saveRet, resaves, feed, df>>

GetLatestHoldings(etf_code) ==
    /\ pc = "idle"
    /\ LET q == get_latest_holdings(holdings, initialized, etf_code)
       IN  /\ unclosed + q.leak <= MaxUnclosed
           /\ unclosed' = unclosed + q.leak
           /\ query' = [op |-> "get_latest_holdings", raised |-> q.raised,
                        rows |-> q.rows, new |-> 0, removed |-> 0,
                        same |-> FALSE]
    /\ pc' = "query"
    /\ UNCHANGED <<initialized, holdings, today, etf_codes, idx, results, runStart,
                   runs, out, lastBatch, saveRet, resaves, feed, df>>

CompareDates(etf_code, d1, d2) ==
    /\ pc = "idle"
    /\ LET q == compare_dates(holdings, initialized, etf_code, strftime(d1), strftime(d2))
       IN  /\ unclosed + q.leak <= MaxUnclosed
           /\ unclosed' = unclosed + q.leak
           /\ query' = [op |-> "compare_dates", raised |-> q.raised,
                        rows |-> q.rows, new |-> q.new, removed |-> q.removed,
                        same |-> d1 = d2]
    /\ pc' = "query"
    /\ UNCHANGED <<initialized, holdings, today, etf_codes, idx, results, runStart,
                   runs, out, lastBatch, saveRet, resaves, feed, df>>

\* ... and drops it.
Discard ==
    /\ pc = "query"
    /\ pc' = "idle"
    /\ query' = NoQuery
    /\ UNCHANGED <<initialized, holdings, today, etf_codes, idx, results, runStart,
                   runs, out, unclosed, lastBatch, saveRet, resaves, feed, df>>

Next ==
    \/ Tick
    \/ InitDatabase
    \/ \E codes \in CodeLists : StartRun(codes)
    \/ \E f \in Feeds, fault \in BOOLEAN : Iterate(f, fault)
    \/ Finish
    \/ \E fault \in BOOLEAN : SaveAgain(fault)
    \/ \E c \in QueryCodes, d \in 1..MaxDay : GetHoldingsByDate(c, d)
    \/ \E c \in QueryCodes : GetLatestHoldings(c)
    \/ \E c \in QueryCodes, d1 \in 1..MaxDay, d2 \in 1..MaxDay : CompareDates(c, d1, d2)
    \/ Discard

Spec == Init /\ [][Next]_vars

(***************************************************************************)
(* The normalizer on its own: fetch_etf_data applied to one feed out of a  *)
(* wide family, and its result stored in a fresh, initialized database, as *)
(* run_tracker(['EMBI']) does.                                             *)
(***************************************************************************)
ColumnOrder ==
    <<"Ticker", "Weight (%)", "Name", "YTM (%)", "Location", "Market Value",
      "Sector", "Price", "Maturity", "Shares", "Notional Value">>

Prefix(k) == {ColumnOrder[i] : i \in 1..k}

\* The column sets of the feeds: the first k recognized columns for every k,
\* and all of them without the weight, without the ticker, and with an
\* unrecognized column.
ColumnSets ==
    {Prefix(k) : k \in 0..Len(ColumnOrder)} \cup
    {SourceColumns \ {"Weight (%)"}, SourceColumns \ {"Ticker"}, FeedColumns,
     {"Ticker", "Weight (%)", "Asset Class"}}

WeightCells == {Num(0), Num(2), Str("0.0"), Str("abc"), NaN}

\* The rows of a feed over cols: any weight, and a ticker alone, a ticker
\* with every other column filled, or every other column without a ticker.
RowsOn(cols) ==
    {FeedRow(cols, p[1], p[2], w, p[3], p[2], p[3]) :
        w \in WeightCells,
        p \in {<<Str("T1"), NaN, NaN>>, <<Str("T1"), Str("x"), Num(5)>>,
               <<NaN, Str("x"), Num(5)>>}}

\* The feeds of at most n rows.
WideFeeds(n) ==
    {FeedError} \cup
    UNION {{[ok |-> TRUE, cols |-> cols, rows |-> rows] :
               rows \in UNION {[1..k -> RowsOn(cols)] : k \in 0..n}} :
           cols \in ColumnSets}

InitFetch ==
    /\ initialized = TRUE
    /\ holdings = <<>>
    /\ today = 1
    /\ pc = "fetch"
    /\ etf_codes = <<"EMBI">>
    /\ idx = 1
    /\ results = EmptyResults
    /\ runStart = [day |-> 1, rows |-> 0]
    /\ runs = 1
    /\ out = "none"
    /\ unclosed = 0
    /\ lastBatch = <<>>
    /\ saveRet = FALSE
    /\ resaves = 0
    /\ query = NoQuery
    /\ feed \in WideFeeds(MaxFeedRows)
    /\ df = None

\* df = fetch_etf_data(etf_code, config)
FetchStep ==
    /\ pc = "fetch"
    /\ df' = fetch_etf_data(etf_codes[idx], feed, strftime(today))
    /\ pc' = "fetched"
    /\ UNCHANGED <<initialized, holdings, today, etf_codes, idx, results, runStart,
                   runs, out, unclosed, lastBatch, saveRet, resaves, query, feed>>

\* if df is not None and len(df) > 0: save_to_database(df, etf_code)
StoreStep ==
    /\ pc = "fetched"
    /\ df.ok /\ Len(df.rows) > 0
    /\ LET s == save_to_database(holdings, df.rows, initialized, FALSE, strftime(today))
       IN  /\ holdings' = s.table
           /\ out' = s.msg
           /\ lastBatch' = IF s.ret THEN df.rows ELSE lastBatch
    /\ pc' = "stored"
    /\ UNCHANGED <<initialized, today, etf_codes, idx, results, runStart, runs,
                   unclosed, saveRet, resaves, query, feed, df>>

NextFetch == FetchStep \/ StoreStep

SpecFetch == InitFetch /\ [][NextFetch]_vars

(***************************************************************************)
(* Properties.                                                             *)
(***************************************************************************)
\* The loop of run_tracker is over: the summary is being printed.
RunOver == pc = "loop" /\ idx > Len(etf_codes)

AllCodes == RunCodes \cup ETF_CONFIG

Listed(c) == \E i \in 1..Len(etf_codes) : etf_codes[i] = c
In(list, c) == \E i \in 1..Len(list) : list[i] = c
Occurrences(s, c) == Cardinality({i \in 1..Len(s) : s[i] = c})

\* Rows of etf code c among the first n rows of the table.
RowsOf(c, n) == {i \in 1..n : holdings[i]["etf_code"] = Str(c)}

\* The table held rows of (c, d) when the current run began.
StoredAtStart(c) ==
    \E i \in 1..runStart.rows :
        /\ holdings[i]["etf_code"] = Str(c)
        /\ holdings[i]["date_of_pull"] = Str(strftime(runStart.day))

\* The whole run took place on the day it began.
SameDayRun == RunOver /\ today = runStart.day

\* C1 as claimed: a code stored on day d and listed by a later run of day d
\* ends under 'skipped', and the run leaves the row count of the table as it
\* found it.
C1_Original ==
    SameDayRun =>
        \A c \in AllCodes : Listed(c) /\ StoredAtStart(c) =>
            In(results.skipped, c) /\ Len(holdings) = runStart.rows

\* C1 amended: a code stored on day d and listed by a later run of day d ends
\* under 'skipped' and under no other list, as often as it is listed, and the
\* rows of that code are the ones the run found; rows of other listed codes
\* may have been added.
C1_SkippedSameDay ==
    SameDayRun =>
        \A c \in AllCodes : Listed(c) /\ StoredAtStart(c) =>
            /\ Occurrences(results.skipped, c) = Occurrences(etf_codes, c)
            /\ ~In(results.success, c) /\ ~In(results.failed, c)
            /\ RowsOf(c, Len(holdings)) = RowsOf(c, runStart.rows)

C1_Witness ==
    /\ SameDayRun
    /\ \E c \in AllCodes : Listed(c) /\ StoredAtStart(c) /\ In(results.skipped, c)
    /\ Len(holdings) > runStart.rows

\* C2 as claimed: a direct save_to_database call with the batch stored last
\* returns False and leaves the table as it was.
C2_Original ==
    [][(\E fault \in BOOLEAN : SaveAgain(fault)) =>
            saveRet' = FALSE /\ holdings' = holdings]_vars

\* C3 as claimed: no two rows of the table agree on etf_code, date_of_pull,
\* ticker and name (nulls included).
C3_Original ==
    \A i, j \in 1..Len(holdings) :
        i # j => \E k \in UniqueColumns : holdings[i][k] # holdings[j][k]

Disjoint ==
    \A c \in AllCodes :
        /\ ~(In(results.success, c) /\ In(results.skipped, c))
        /\ ~(In(results.success, c) /\ In(results.failed, c))
        /\ ~(In(results.skipped, c) /\ In(results.failed, c))

NoRepeat == \A i, j \in 1..Len(etf_codes) : etf_codes[i] = etf_codes[j] => i = j

\* C4 as claimed: at the end of a run no code is in two of the three lists.
C4_Original == RunOver => Disjoint

\* C4 amended: at the end of a run over a list that names no code twice, no
\* code is in two of the three lists.
C4_DisjointWithoutRepeats == RunOver /\ NoRepeat => Disjoint

C4_Witness ==
    /\ RunOver /\ NoRepeat /\ Len(etf_codes) > 1
    /\ results.success # <<>> /\ results.skipped # <<>>

\* The source weight of a dataframe row, and what kind of value it is.
SourceWeight(r) == feed.rows[r.index + 1]["Weight (%)"]
IsZero(c) == (c.kind = "num" /\ c.num = 0) \/ (c.kind = "str" /\ c.str \in {"0", "0.0"})
IsNonNumeric(c) == c.kind = "nan" \/ (c.kind = "str" /\ c.str \notin DOMAIN NumericText)
Fetched == pc \in {"fetched", "stored"} /\ df.ok

\* C5 as claimed: no row whose source weight is zero or non-numeric is in
\* the result of fetch_etf_data.
C5_Original ==
    Fetched => \A i \in 1..Len(df.rows) :
        ~IsZero(SourceWeight(df.rows[i])) /\ ~IsNonNumeric(SourceWeight(df.rows[i]))

\* C5 amended: no row whose source weight is a zero, as a number or as a
\* text, is in the result of fetch_etf_data, and no stored row has weight 0.
C5_NoZeroWeight ==
    /\ Fetched => \A i \in 1..Len(df.rows) :
          /\ ~IsZero(SourceWeight(df.rows[i]))
          /\ df.rows[i].cells["weight_pct"] # Num(0)
    /\ \A i \in 1..Len(holdings) : holdings[i]["weight_pct"] # Num(0)

C5_Witness ==
    /\ pc = "stored" /\ Len(holdings) = 1
    /\ \E i \in 1..Len(feed.rows) : feed.rows[i]["Weight (%)"] = Str("0.0")

\* C6 as claimed: an iteration whose save fails with another error than a
\* uniqueness violation appends its code to 'failed'.
C6_Original ==
    [][(pc = "loop" /\ idx' = idx + 1 /\ out' = "save_error") =>
            results'.failed = Append(results.failed, etf_codes[idx])]_vars

\* C7 as claimed: every connection an operation opened is closed when the
\* operation has returned.
C7_Original == unclosed = 0

SelfCompared == query.op = "compare_dates" /\ query.same /\ ~query.raised

\* C8 as claimed: comparing a date with itself gives weight_change 0 and
\* ytm_change 0 in every row, and no new and no removed holding.
C8_Original ==
    SelfCompared =>
        /\ \A i \in 1..Len(query.rows) :
              query.rows[i].weight_change = Num(0) /\ query.rows[i].ytm_change = Num(0)
        /\ query.new = 0 /\ query.removed = 0

\* C8 amended: comparing a date with itself pairs every row with a stored
\* row on both sides; a row paired with itself has weight_change 0, and
\* ytm_change 0 when its yield is stored and null when it is not; the new
\* and the removed counts are equal, both the number of result rows whose
\* stored weight is null; and a row paired with another row has a null
\* ticker or name.
C8_SelfCompare ==
    SelfCompared =>
        /\ \A i \in 1..Len(query.rows) :
              LET r == query.rows[i]
              IN  /\ ~isna(r.id_old) /\ ~isna(r.id_new)
                  /\ r.id_old = r.id_new =>
                        /\ r.weight_change = Num(0)
                        /\ r.ytm_change =
                              IF isna(holdings[r.id_old.num]["ytm_pct"]) THEN NaN ELSE Num(0)
                  /\ r.id_old # r.id_new => isna(r.ticker) \/ isna(r.name)
        /\ query.new = query.removed
        /\ query.new = Cardinality({i \in 1..Len(query.rows) :
                            isna(holdings[query.rows[i].id_old.num]["weight_pct"])})

C8_Witness ==
    /\ SelfCompared
    /\ \E i \in 1..Len(query.rows) : isna(query.rows[i].ytm_pct_old)
    /\ \E i \in 1..Len(query.rows) : ~isna(query.rows[i].ytm_pct_old)

\* A feed row that supplies a ticker and a numeric weight and nothing else.
OnlyTickerAndWeight(row) ==
    /\ {"Ticker", "Weight (%)"} \subseteq DOMAIN row
    /\ ~isna(row["Ticker"])
    /\ ~isna(row["Weight (%)"]) /\ ~IsNonNumeric(row["Weight (%)"])
    /\ \A c \in DOMAIN row \ {"Ticker", "Weight (%)"} : isna(row[c])

InResult(i) == \E j \in 1..Len(df.rows) : df.rows[j].index = i - 1

\* C9 as claimed: a row that supplies only ticker and weight is not in the
\* result of fetch_etf_data, whatever columns the feed has.
C9_Original ==
    Fetched => \A i \in 1..Len(feed.rows) :
        OnlyTickerAndWeight(feed.rows[i]) => ~InResult(i)

\* C9 amended: a row that supplies only ticker and weight is dropped when
\* the feed has at least 7 of the 11 recognized columns; with 6 or fewer its
\* 4 non-null values (etf_code, date_of_pull, ticker, weight_pct) are half
\* of the columns or more, and it is kept unless its weight is zero.
C9_DroppedFromSevenColumns ==
    Fetched => \A i \in 1..Len(feed.rows) :
        OnlyTickerAndWeight(feed.rows[i]) =>
            (InResult(i) <=>
                /\ ~IsZero(feed.rows[i]["Weight (%)"])
                /\ Cardinality(feed.cols \cap SourceColumns) <= 6)

C9_Witness ==
    /\ Fetched
    /\ Cardinality(feed.cols \cap SourceColumns) = 11
    /\ Len(df.rows) = 1
    /\ \E i \in 1..Len(feed.rows) :
          /\ OnlyTickerAndWeight(feed.rows[i])
          /\ ~IsZero(feed.rows[i]["Weight (%)"])
          /\ ~InResult(i)

\* C10: inside the loop every position passed has one outcome: the three
\* lists hold as many codes as positions were passed, each code as often as
\* it was passed, each list in listed order; and at every position before
\* the end the next iteration can run.
IsSubSeq(s, t) ==
    \E f \in [1..Len(s) -> 1..Len(t)] :
        /\ \A i \in 1..Len(s) : s[i] = t[f[i]]
        /\ \A i, j \in 1..Len(s) : i < j => f[i] < f[j]

C10_EveryCodeOneOutcome ==
    pc = "loop" =>
        LET done == SubSeq(etf_codes, 1, idx - 1)
        IN  /\ idx <= Len(etf_codes) + 1
            /\ Len(results.success) + Len(results.skipped) + Len(results.failed) = idx - 1
            /\ \A c \in AllCodes :
                  Occurrences(results.success, c) + Occurrences(results.skipped, c)
                      + Occurrences(results.failed, c) = Occurrences(done, c)
            /\ \A l \in {"success", "skipped", "failed"} : IsSubSeq(results[l], done)
            /\ idx <= Len(etf_codes) =>
                  ENABLED (\E f \in Feeds, fault \in BOOLEAN : Iterate(f, fault))

C10_Witness ==
    /\ RunOver /\ Len(etf_codes) > 1
    /\ results.failed # <<>> /\ results.failed[1] = etf_codes[1]
    /\ results.success # <<>>

====
